---------------------------- MODULE Spec2Model ----------------------------
(***************************************************************************)
(* Model of the dummy clock driver (src/dummy-clk.c).                      *)
(*                                                                         *)
(* The driver has two entry points, dummy_clk_probe (Attach) and           *)
(* dummy_clk_remove (Detach), and two helpers, dummy_clk_enable and        *)
(* dummy_clk_disable.  Everything runs synchronously on one thread; the    *)
(* handlers are cut into one action per loop iteration and the variable    *)
(* pc forces them to run to their return in source order.                  *)
(*                                                                         *)
(* Array indices are those of the C code (0 .. n_clocks-1).                *)
(***************************************************************************)
EXTENDS Integers, Sequences, FiniteSets, TLC

\* ------------------------------------------------------------- bounds
\* Largest number of clocks the devicetree node declares.
MaxClocks == 2
\* Largest number of times the driver core calls probe on the device.
MaxProbes == 2
\* Largest number of direct dummy_clk_enable / dummy_clk_disable calls
\* in the helper-level specification SpecItem.
MaxCalls == 2

\* Values a clock-frequencies cell can hold (u32, Hz).
FreqValues == {1000000, 2000000}

\* ------------------------------------------------------------- state
VARIABLES
    dt_nclocks,     \* devicetree: number of clocks the node declares
    dt_freqs,       \* devicetree: the clock-frequencies property
    pdata,          \* the record pdev->dev.platform_data points to
    data,           \* the record probe allocates (its local `data`)
    prov_count,     \* provider: outstanding prepare_enable count per clock
    pc,             \* position of the running handler, "idle" between calls
    i,              \* loop index of the running handler
    rm_n,           \* remove: n_clocks as read through a NULL data pointer
    op,             \* the handler that runs or ran last
    ret,            \* return value of the handler that ran last
    errlog,         \* dev_err / dev_info failure messages of that handler
    reqs,           \* calls that handler made into the devicetree / clock API
    bound,          \* driver core: the device is bound to the driver
    probes,         \* number of probe calls so far
    calls           \* SpecItem: the direct helper calls made so far

vars == <<dt_nclocks, dt_freqs, pdata, data, prov_count, pc, i, rm_n, op,
          ret, errlog, reqs, bound, probes, calls>>

\* ------------------------------------------------------------- values
\* struct clk * values: a live handle of provider clock k, NULL, an
\* ERR_PTR() error pointer, the content of a kmalloc'ed cell that was never
\* written, and whatever a read through an invalid data pointer yields.
Clk(k) == [tag |-> "clk", id |-> k]
NULL == [tag |-> "NULL", id |-> 0]
ERR_PTR == [tag |-> "ERR_PTR", id |-> 0]
UNINIT == [tag |-> "UNINIT", id |-> 0]
WILD == [tag |-> "WILD", id |-> 0]

IsClk(h) == h.tag = "clk"

\* The index range of an array of n cells.
Idx(n) == 0 .. (n - 1)

\* One call into the devicetree or the clock API: the function, the loop
\* index it was made for, the handle and argument passed, the result.
Req(f, k, h, a, r) == [fn |-> f, idx |-> k, clk |-> h, arg |-> a, res |-> r]

\* One diagnostic message and the index it prints (-1: none).
Msg(m, k) == [msg |-> m, idx |-> k]

\* struct dummy_clk_data.  `alloc`: the struct itself was allocated;
\* `arrays`: the three per-clock arrays were allocated.
NoData ==
    [alloc |-> FALSE, arrays |-> FALSE, n_clocks |-> 0,
     clocks |-> <<>>, clk_frequencies |-> <<>>, clk_enabled |-> <<>>]

\* A NULL platform_data pointer: there is no record behind it.
NullData ==
    [alloc |-> FALSE, arrays |-> FALSE, n_clocks |-> 0,
     clocks |-> <<>>, clk_frequencies |-> <<>>, clk_enabled |-> <<>>]

\* ------------------------------------------------------------- clock provider
\* Effect of one request on the provider's per-clock enable count:
\* a successful clk_prepare_enable takes a reference, clk_disable_unprepare
\* drops one.  Requests on pointers that are no live handle touch no clock.
ProviderApply(cnt, r) ==
    IF ~IsClk(r.clk) \/ r.clk.id \notin DOMAIN cnt THEN cnt
    ELSE IF r.fn = "clk_prepare_enable" /\ r.res = "ok"
         THEN [cnt EXCEPT ![r.clk.id] = @ + 1]
    ELSE IF r.fn = "clk_disable_unprepare"
         THEN [cnt EXCEPT ![r.clk.id] = IF @ > 0 THEN @ - 1 ELSE 0]
    ELSE cnt

RECURSIVE ProviderApplyAll(_, _)
ProviderApplyAll(cnt, rs) ==
    IF rs = <<>> THEN cnt
    ELSE ProviderApplyAll(ProviderApply(cnt, Head(rs)), Tail(rs))

\* Results clk_set_rate / clk_prepare_enable can give on a handle.  On an
\* ERR_PTR value the call dereferences an invalid pointer: the kernel may
\* fault ("oops", the handler never returns) or the call may return.
ClkCallOutcomes(h) ==
    IF IsClk(h) THEN {"ok", "fail"} ELSE {"ok", "fail", "oops"}

\* ------------------------------------------------------------- devicetree
\* of_clk_get(np, k): a live handle, NULL, or an error pointer.
OfClkGetOutcomes == {"clk", "NULL", "ERR_PTR"}

of_clk_get(k, out) ==
    CASE out = "clk" -> Clk(k)
      [] out = "NULL" -> NULL
      [] OTHER -> ERR_PTR

\* of_property_read_u32_array(np, "clock-frequencies", out_values, sz):
\* fails when the property is absent, empty or shorter than sz cells; otherwise
\* copies the first sz cells and returns 0.  out_values is untouched on
\* failure.
of_property_read_u32_array(prop, out_values, sz) ==
    IF ~prop.present THEN [ret |-> "-EINVAL", out |-> out_values]
    ELSE IF Len(prop.vals) = 0 THEN [ret |-> "-ENODATA", out |-> out_values]
    ELSE IF Len(prop.vals) < sz THEN [ret |-> "-EOVERFLOW", out |-> out_values]
    ELSE [ret |-> "0", out |-> [k \in Idx(sz) |-> prop.vals[k + 1]]]

\* ------------------------------------------------------------- helpers
\* Variant of dummy_clk_enable: the test of clk_enabled (lines 47-48) is
\* missing, so an enabled clock is configured and enabled again.
dummy_clk_enable_noguard(d, clk_nr, sr, pe) ==
    LET h == d.clocks[clk_nr]
        f == d.clk_frequencies[clk_nr]
        setrate == Req("clk_set_rate", clk_nr, h, f, sr)
        prepare == Req("clk_prepare_enable", clk_nr, h, 0, pe)
    IN  IF sr = "oops"
        THEN [data |-> d, ret |-> "oops", reqs |-> <<setrate>>, log |-> <<>>]
        ELSE IF sr = "fail"
        THEN [data |-> d, ret |-> "err", reqs |-> <<setrate>>,
              log |-> <<Msg("Failed to set clock frequency", -1)>>]
        ELSE IF pe = "oops"
        THEN [data |-> d, ret |-> "oops", reqs |-> <<setrate, prepare>>,
              log |-> <<>>]
        ELSE IF pe = "fail"
        THEN [data |-> d, ret |-> "err", reqs |-> <<setrate, prepare>>,
              log |-> <<Msg("Failed to enable clock", -1)>>]
        ELSE [data |-> [d EXCEPT !.clk_enabled[clk_nr] = TRUE],
              ret |-> "0", reqs |-> <<setrate, prepare>>, log |-> <<>>]

\* Variant of dummy_clk_enable: clk_enabled is set (line 70) before
\* clk_prepare_enable is called, so it stays set when that call fails.
dummy_clk_enable_earlyflag(d, clk_nr, sr, pe) ==
    LET h == d.clocks[clk_nr]
        f == d.clk_frequencies[clk_nr]
        setrate == Req("clk_set_rate", clk_nr, h, f, sr)
        prepare == Req("clk_prepare_enable", clk_nr, h, 0, pe)
        e == [d EXCEPT !.clk_enabled[clk_nr] = TRUE]
    IN  IF d.clk_enabled[clk_nr]
        THEN [data |-> d, ret |-> "0", reqs |-> <<>>, log |-> <<>>]
        ELSE IF sr = "oops"
        THEN [data |-> d, ret |-> "oops", reqs |-> <<setrate>>, log |-> <<>>]
        ELSE IF sr = "fail"
        THEN [data |-> d, ret |-> "err", reqs |-> <<setrate>>,
              log |-> <<Msg("Failed to set clock frequency", -1)>>]
        ELSE IF pe = "oops"
        THEN [data |-> e, ret |-> "oops", reqs |-> <<setrate, prepare>>,
              log |-> <<>>]
        ELSE IF pe = "fail"
        THEN [data |-> e, ret |-> "err", reqs |-> <<setrate, prepare>>,
              log |-> <<Msg("Failed to enable clock", -1)>>]
        ELSE [data |-> e, ret |-> "0", reqs |-> <<setrate, prepare>>,
              log |-> <<>>]

\* Variant of dummy_clk_enable: the rate requested is always the first cell
\* of clk_frequencies instead of cell clk_nr (line 51).
dummy_clk_enable_freq0(d, clk_nr, sr, pe) ==
    LET h == d.clocks[clk_nr]
        f == d.clk_frequencies[0]
        setrate == Req("clk_set_rate", clk_nr, h, f, sr)
        prepare == Req("clk_prepare_enable", clk_nr, h, 0, pe)
    IN  IF d.clk_enabled[clk_nr]
        THEN [data |-> d, ret |-> "0", reqs |-> <<>>, log |-> <<>>]
        ELSE IF sr = "oops"
        THEN [data |-> d, ret |-> "oops", reqs |-> <<setrate>>, log |-> <<>>]
        ELSE IF sr = "fail"
        THEN [data |-> d, ret |-> "err", reqs |-> <<setrate>>,
              log |-> <<Msg("Failed to set clock frequency", -1)>>]
        ELSE IF pe = "oops"
        THEN [data |-> d, ret |-> "oops", reqs |-> <<setrate, prepare>>,
              log |-> <<>>]
        ELSE IF pe = "fail"
        THEN [data |-> d, ret |-> "err", reqs |-> <<setrate, prepare>>,
              log |-> <<Msg("Failed to enable clock", -1)>>]
        ELSE [data |-> [d EXCEPT !.clk_enabled[clk_nr] = TRUE],
              ret |-> "0", reqs |-> <<setrate, prepare>>, log |-> <<>>]

\* dummy_clk_enable(data, clk_nr); sr and pe are the provider's results for
\* clk_set_rate and clk_prepare_enable.  Gives the record afterwards, the
\* return value ("oops": the call faulted and never returned) and the
\* requests made.
dummy_clk_enable(d, clk_nr, sr, pe) ==
    LET h == d.clocks[clk_nr]
        f == d.clk_frequencies[clk_nr]
        setrate == Req("clk_set_rate", clk_nr, h, f, sr)
        prepare == Req("clk_prepare_enable", clk_nr, h, 0, pe)
    IN  IF d.clk_enabled[clk_nr]
        THEN [data |-> d, ret |-> "0", reqs |-> <<>>, log |-> <<>>]
        ELSE IF sr = "oops"
        THEN [data |-> d, ret |-> "oops", reqs |-> <<setrate>>, log |-> <<>>]
        ELSE IF sr = "fail"
        THEN [data |-> d, ret |-> "err", reqs |-> <<setrate>>,
              log |-> <<Msg("Failed to set clock frequency", -1)>>]
        ELSE IF pe = "oops"
        THEN [data |-> d, ret |-> "oops", reqs |-> <<setrate, prepare>>,
              log |-> <<>>]
        ELSE IF pe = "fail"
        THEN [data |-> d, ret |-> "err", reqs |-> <<setrate, prepare>>,
              log |-> <<Msg("Failed to enable clock", -1)>>]
        ELSE [data |-> [d EXCEPT !.clk_enabled[clk_nr] = TRUE],
              ret |-> "0", reqs |-> <<setrate, prepare>>, log |-> <<>>]

\* Variant of dummy_clk_disable: the test of clk_enabled (lines 78-79) is
\* missing, so a disabled clock is disabled again.
dummy_clk_disable_noguard(d, clk_nr) ==
    [data |-> [d EXCEPT !.clk_enabled[clk_nr] = FALSE],
     reqs |-> <<Req("clk_disable_unprepare", clk_nr, d.clocks[clk_nr],
                    0, "ok")>>]

\* Variant of dummy_clk_disable: the store of line 84 clears the flag of
\* every clock of the record, not only that of clk_nr.
dummy_clk_disable_all(d, clk_nr) ==
    IF ~d.clk_enabled[clk_nr]
    THEN [data |-> d, reqs |-> <<>>]
    ELSE [data |-> [d EXCEPT !.clk_enabled =
                               [k \in DOMAIN d.clk_enabled |-> FALSE]],
          reqs |-> <<Req("clk_disable_unprepare", clk_nr, d.clocks[clk_nr],
                         0, "ok")>>]

\* dummy_clk_disable(data, clk_nr): the record afterwards and the requests
\* made.  clk_disable_unprepare returns nothing.
dummy_clk_disable(d, clk_nr) ==
    IF ~d.clk_enabled[clk_nr]
    THEN [data |-> d, reqs |-> <<>>]
    ELSE [data |-> [d EXCEPT !.clk_enabled[clk_nr] = FALSE],
          reqs |-> <<Req("clk_disable_unprepare", clk_nr, d.clocks[clk_nr],
                         0, "ok")>>]

\* ------------------------------------------------------------- probe conditions
\* Variant of NoClocks: the zero-count test is missing.
NoClocks_absent(n) == FALSE

\* line 105: no clock declared.
NoClocks(n) == n = 0

\* line 128: the handle of_clk_get returned counts as a failure.
ClockInvalid(h) == h = NULL

\* line 138: the frequency read failed.
ReadFailed(r) == r # "0"

\* Variant of EnableFailed: the test is inverted (== 0 for != 0).
EnableFailed_inverted(r) == r = "0"

\* Variant of EnableFailed: the result of dummy_clk_enable is ignored.
EnableFailed_ignored(r) == FALSE

\* line 144: dummy_clk_enable failed.
EnableFailed(r) == r # "0"

\* ------------------------------------------------------------- probe
\* Lines 87-123: allocate the instance record, count the declared clocks,
\* allocate the three arrays.  a_data / a_arr: whether the allocations
\* succeed.  The record is a fresh one on every call; nothing of an earlier
\* call is read.
ProbeBegin ==
    /\ pc = "idle"
    /\ ~bound
    /\ probes < MaxProbes
    /\ probes' = probes + 1
    /\ op' = "probe"
    /\ i' = 0
    /\ \E a_data \in BOOLEAN, a_arr \in BOOLEAN :
         IF ~a_data
         THEN /\ data' = NoData
              /\ reqs' = <<>>
              /\ errlog' = <<Msg("Could not allocate memory", -1)>>
              /\ ret' = "-ENOMEM"
              /\ pc' = "idle"
         ELSE LET cnt == Req("of_clk_get_parent_count", -1, NULL,
                             dt_nclocks, "ok")
              IN  IF NoClocks(dt_nclocks)
                  THEN /\ data' = [NoData EXCEPT !.alloc = TRUE,
                                                 !.n_clocks = dt_nclocks]
                       /\ reqs' = <<cnt>>
                       /\ errlog' = <<Msg("No clocks found in devicetree", -1)>>
                       /\ ret' = "-ENOMEM"
                       /\ pc' = "idle"
                  ELSE IF ~a_arr
                  THEN /\ data' = [NoData EXCEPT !.alloc = TRUE,
                                                 !.n_clocks = dt_nclocks]
                       /\ reqs' = <<cnt>>
                       /\ errlog' = <<Msg("Could not allocate memory", -1)>>
                       /\ ret' = "-ENOMEM"
                       /\ pc' = "idle"
                  ELSE /\ data' =
                            [alloc |-> TRUE, arrays |-> TRUE,
                             n_clocks |-> dt_nclocks,
                             clocks |-> [k \in Idx(dt_nclocks) |-> UNINIT],
                             clk_frequencies |-> [k \in Idx(dt_nclocks) |-> 0],
                             clk_enabled |-> [k \in Idx(dt_nclocks) |-> FALSE]]
                       /\ reqs' = <<cnt>>
                       /\ errlog' = <<>>
                       /\ ret' = "running"
                       /\ pc' = "probe_get_clocks"
    /\ UNCHANGED <<dt_nclocks, dt_freqs, pdata, prov_count, rm_n, bound, calls>>

\* Lines 126-133: the loop that resolves the clocks: one iteration, or the
\* exit once i reaches n_clocks.
ProbeGetClock ==
    /\ pc = "probe_get_clocks"
    /\ IF i < data.n_clocks
       THEN \E out \in OfClkGetOutcomes :
              LET h == of_clk_get(i, out)
              IN  /\ data' = [data EXCEPT !.clocks[i] = h]
                  /\ reqs' = Append(reqs, Req("of_clk_get", i, h, 0, out))
                  /\ IF ClockInvalid(h)
                     THEN /\ errlog' = Append(errlog,
                                              Msg("Could not get clock", i))
                          /\ ret' = "-EINVAL"
                          /\ pc' = "idle"
                          /\ i' = i
                     ELSE /\ errlog' = errlog
                          /\ ret' = ret
                          /\ pc' = pc
                          /\ i' = i + 1
       ELSE /\ pc' = "probe_read_freq"
            /\ UNCHANGED <<data, reqs, errlog, ret, i>>
    /\ UNCHANGED <<dt_nclocks, dt_freqs, pdata, prov_count, rm_n, op, bound,
                   probes, calls>>

\* Lines 135-141: read the frequencies in one call.
ProbeReadFrequencies ==
    /\ pc = "probe_read_freq"
    /\ LET r == of_property_read_u32_array(dt_freqs, data.clk_frequencies,
                                           data.n_clocks)
       IN  /\ data' = [data EXCEPT !.clk_frequencies = r.out]
           /\ reqs' = Append(reqs, Req("of_property_read_u32_array", -1, NULL,
                                       data.n_clocks,
                                       IF r.ret = "0" THEN "ok" ELSE "fail"))
           /\ IF ReadFailed(r.ret)
              THEN /\ errlog' = Append(errlog,
                          Msg("Devicetree clock-frequencies missing", -1))
                   /\ ret' = "-EINVAL"
                   /\ pc' = "idle"
              ELSE /\ errlog' = errlog
                   /\ ret' = ret
                   /\ pc' = "probe_enable"
    /\ i' = 0
    /\ UNCHANGED <<dt_nclocks, dt_freqs, pdata, prov_count, rm_n, op, bound,
                   probes, calls>>

\* Lines 143-153: the loop that enables the clocks: one iteration, or the
\* exit once i reaches n_clocks, where probe returns 0 and the driver core
\* binds the device.
ProbeEnable ==
    /\ pc = "probe_enable"
    /\ IF i < data.n_clocks
       THEN \E sr \in ClkCallOutcomes(data.clocks[i]),
               pe \in ClkCallOutcomes(data.clocks[i]) :
              LET r == dummy_clk_enable(data, i, sr, pe)
              IN  /\ data' = r.data
                  /\ reqs' = reqs \o r.reqs
                  /\ prov_count' = ProviderApplyAll(prov_count, r.reqs)
                  /\ bound' = bound
                  /\ IF r.ret = "oops"
                     THEN /\ errlog' = errlog \o r.log
                          /\ ret' = ret
                          /\ pc' = "oops"
                          /\ i' = i
                     ELSE IF EnableFailed(r.ret)
                     THEN /\ errlog' =
                               (errlog \o r.log)
                                 \o <<Msg("Could not enable clock", -1)>>
                          /\ ret' = "-EINVAL"
                          /\ pc' = "idle"
                          /\ i' = i
                     ELSE /\ errlog' = errlog \o r.log
                          /\ ret' = ret
                          /\ pc' = pc
                          /\ i' = i + 1
       ELSE /\ pc' = "idle"
            /\ ret' = "0"
            /\ bound' = TRUE
            /\ UNCHANGED <<data, reqs, prov_count, errlog, i>>
    /\ UNCHANGED <<dt_nclocks, dt_freqs, pdata, rm_n, op, probes, calls>>

\* ------------------------------------------------------------- remove
\* The record remove works on: data = dev_get_platdata(&pdev->dev).
RemoveHasData == pdata.alloc

\* n_clocks as remove reads it.
RemoveN == IF RemoveHasData THEN pdata.n_clocks ELSE rm_n

\* Lines 158-162: fetch the data pointer.  It is the device's platform_data,
\* not the record probe allocated.  When it is NULL the read of
\* data->n_clocks in the loop test is a NULL dereference: the kernel faults
\* ("oops") or, where address 0 is readable, the read yields some number g.
RemoveBegin ==
    /\ pc = "idle"
    /\ bound
    /\ op' = "remove"
    /\ i' = 0
    /\ reqs' = <<>>
    /\ errlog' = <<>>
    /\ ret' = "running"
    /\ IF RemoveHasData
       THEN rm_n' = 0 /\ pc' = "remove_loop"
       ELSE \E fault \in BOOLEAN, g \in 0 .. MaxClocks :
              IF fault
              THEN rm_n' = 0 /\ pc' = "oops"
              ELSE rm_n' = g /\ pc' = "remove_loop"
    /\ UNCHANGED <<dt_nclocks, dt_freqs, pdata, data, prov_count, bound,
                   probes, calls>>

\* Variant of RemoveIndex: teardown in reverse order.
RemoveIndex_reverse(k, n) == n - 1 - k

\* Lines 163-165: the clock the k-th iteration of the loop over n clocks
\* visits.
RemoveIndex(k, n) == k

\* Lines 163-167: the loop: one iteration, or the exit once i reaches
\* n_clocks, where remove returns 0 and the driver core unbinds the device.
\* With a NULL data pointer the flag and the handle read are whatever the
\* invalid reads yield; the store of `false` goes to the same place.
RemoveDisable ==
    /\ pc = "remove_loop"
    /\ IF i < RemoveN
       THEN /\ IF RemoveHasData
               THEN LET r == dummy_clk_disable(pdata, RemoveIndex(i, RemoveN))
                    IN  /\ pdata' = r.data
                        /\ reqs' = reqs \o r.reqs
                        /\ prov_count' = ProviderApplyAll(prov_count, r.reqs)
               ELSE \E flag \in BOOLEAN :
                      /\ pdata' = pdata
                      /\ prov_count' = prov_count
                      /\ reqs' = IF flag
                                 THEN Append(reqs,
                                             Req("clk_disable_unprepare",
                                                 RemoveIndex(i, RemoveN),
                                                 WILD, 0, "ok"))
                                 ELSE reqs
            /\ i' = i + 1
            /\ UNCHANGED <<pc, ret, bound>>
       ELSE /\ pc' = "idle"
            /\ ret' = "0"
            /\ bound' = FALSE
            /\ UNCHANGED <<pdata, reqs, prov_count, i>>
    /\ UNCHANGED <<dt_nclocks, dt_freqs, data, rm_n, op, errlog, probes,
                   calls>>

\* ------------------------------------------------------------- specification
\* The clock-frequencies property: absent, or 0 .. MaxClocks+1 cells.
FreqProps ==
    {[present |-> FALSE, vals |-> <<>>]} \cup
    {[present |-> TRUE, vals |-> v] :
        v \in UNION {[1 .. l -> FreqValues] : l \in 0 .. (MaxClocks + 1)}}

\* A device instantiated from the devicetree: platform_data is NULL and the
\* driver never sets it.  No clock is enabled yet.
Init ==
    /\ dt_nclocks \in 0 .. MaxClocks
    /\ dt_freqs \in FreqProps
    /\ pdata = NullData
    /\ data = NoData
    /\ prov_count = [k \in Idx(MaxClocks) |-> 0]
    /\ pc = "idle"
    /\ i = 0
    /\ rm_n = 0
    /\ op = "none"
    /\ ret = "none"
    /\ errlog = <<>>
    /\ reqs = <<>>
    /\ bound = FALSE
    /\ probes = 0
    /\ calls = <<>>

Next ==
    \/ ProbeBegin
    \/ ProbeGetClock
    \/ ProbeReadFrequencies
    \/ ProbeEnable
    \/ RemoveBegin
    \/ RemoveDisable

Spec == Init /\ [][Next]_vars

\* ------------------------------------------------------------- helper level
\* The helpers called directly on a populated record while the device is
\* bound, and remove run on a device whose platform_data is such a record.

\* One direct call: the helper, its clk_nr, its return value, the requests
\* it made, and the clk_enabled array before and after it.
Call(f, k, r, rs, b, a) ==
    [fn |-> f, idx |-> k, ret |-> r, reqs |-> rs, before |-> b, after |-> a]

\* dummy_clk_enable(data, k) on the record behind platform_data.
CallEnable ==
    /\ pc = "idle"
    /\ bound
    /\ pdata.alloc
    /\ Len(calls) < MaxCalls
    /\ \E k \in Idx(pdata.n_clocks) :
         \E sr \in ClkCallOutcomes(pdata.clocks[k]),
            pe \in ClkCallOutcomes(pdata.clocks[k]) :
           LET r == dummy_clk_enable(pdata, k, sr, pe)
           IN  /\ pdata' = r.data
               /\ reqs' = r.reqs
               /\ errlog' = r.log
               /\ ret' = r.ret
               /\ prov_count' = ProviderApplyAll(prov_count, r.reqs)
               /\ calls' = Append(calls,
                                  Call("dummy_clk_enable", k, r.ret, r.reqs,
                                       pdata.clk_enabled, r.data.clk_enabled))
    /\ op' = "dummy_clk_enable"
    /\ UNCHANGED <<dt_nclocks, dt_freqs, data, pc, i, rm_n, bound, probes>>

\* dummy_clk_disable(data, k) on the record behind platform_data.
CallDisable ==
    /\ pc = "idle"
    /\ bound
    /\ pdata.alloc
    /\ Len(calls) < MaxCalls
    /\ \E k \in Idx(pdata.n_clocks) :
         LET r == dummy_clk_disable(pdata, k)
         IN  /\ pdata' = r.data
             /\ reqs' = r.reqs
             /\ prov_count' = ProviderApplyAll(prov_count, r.reqs)
             /\ calls' = Append(calls,
                                Call("dummy_clk_disable", k, "void", r.reqs,
                                     pdata.clk_enabled, r.data.clk_enabled))
    /\ op' = "dummy_clk_disable"
    /\ errlog' = <<>>
    /\ ret' = "void"
    /\ UNCHANGED <<dt_nclocks, dt_freqs, data, pc, i, rm_n, bound, probes>>

\* A populated record of n >= 1 clocks: every handle live, every frequency
\* set, any mix of enabled and disabled items, and the provider holding one
\* reference for each enabled item.
InitItem ==
    /\ dt_nclocks \in 1 .. MaxClocks
    /\ \E f \in [Idx(dt_nclocks) -> FreqValues],
          e \in [Idx(dt_nclocks) -> BOOLEAN] :
         /\ dt_freqs = [present |-> TRUE,
                        vals |-> [k \in 1 .. dt_nclocks |-> f[k - 1]]]
         /\ pdata = [alloc |-> TRUE, arrays |-> TRUE, n_clocks |-> dt_nclocks,
                     clocks |-> [k \in Idx(dt_nclocks) |-> Clk(k)],
                     clk_frequencies |-> f, clk_enabled |-> e]
         /\ prov_count = [k \in Idx(MaxClocks) |->
                            IF k < dt_nclocks /\ e[k] THEN 1 ELSE 0]
    /\ data = NoData
    /\ pc = "idle"
    /\ i = 0
    /\ rm_n = 0
    /\ op = "none"
    /\ ret = "none"
    /\ errlog = <<>>
    /\ reqs = <<>>
    /\ bound = TRUE
    /\ probes = 0
    /\ calls = <<>>

NextItem ==
    \/ CallEnable
    \/ CallDisable
    \/ RemoveBegin
    \/ RemoveDisable

SpecItem == InitItem /\ [][NextItem]_vars

\* Both kinds of run, each from its own initial states: the devicetree
\* device of Spec (platform_data NULL) and the populated record of SpecItem.
InitAll == Init \/ InitItem

NextAll ==
    \/ ~pdata.alloc /\ Next
    \/ pdata.alloc /\ NextItem

SpecAll == InitAll /\ [][NextAll]_vars

\* ------------------------------------------------------------- properties
\* Positions of the requests the current handler made to function f.
ReqsOf(f) == {p \in DOMAIN reqs : reqs[p].fn = f}

\* The two provider calls of dummy_clk_enable.
EnableFns == {"clk_set_rate", "clk_prepare_enable"}

EnableReqs == {p \in DOMAIN reqs : reqs[p].fn \in EnableFns}

\* probe has returned to the driver core.
ProbeReturned == op = "probe" /\ pc = "idle"

\* remove has returned to the driver core.
RemoveReturned == op = "remove" /\ pc = "idle"

LastMsg == IF errlog = <<>> THEN Msg("none", -1) ELSE errlog[Len(errlog)]

\* ---- C1
\* The case of C1: probe has returned; the node declares n >= 1 clocks and
\* clock-frequencies holds exactly n cells; each of the n clocks was resolved
\* to a live handle; every clk_set_rate and clk_prepare_enable made
\* succeeded.
C1_Case ==
    /\ ProbeReturned
    /\ dt_nclocks >= 1
    /\ dt_freqs.present
    /\ Len(dt_freqs.vals) = dt_nclocks
    /\ \A k \in Idx(dt_nclocks) :
         \E p \in ReqsOf("of_clk_get") :
           reqs[p].idx = k /\ reqs[p].res = "clk"
    /\ \A p \in EnableReqs : reqs[p].res = "ok"

\* C1: for every n >= 1, Attach with n declared clocks and exactly n
\* frequencies, where every resolution, set_rate and prepare_enable
\* succeeds, returns success and leaves a ClockSet of length n in which
\* every item is enabled and carries the configured frequency of its index.
C1_AttachSucceeds ==
    C1_Case =>
      /\ ret = "0"
      /\ data.arrays
      /\ data.n_clocks = dt_nclocks
      /\ DOMAIN data.clk_enabled = Idx(dt_nclocks)
      /\ DOMAIN data.clk_frequencies = Idx(dt_nclocks)
      /\ \A k \in Idx(dt_nclocks) :
           /\ data.clk_enabled[k]
           /\ data.clk_frequencies[k] = dt_freqs.vals[k + 1]
           /\ data.clocks[k] = Clk(k)

\* Witness of C1: a successful Attach of MaxClocks clocks whose first two
\* frequencies differ.
C1_Witness ==
    /\ C1_Case
    /\ ret = "0"
    /\ dt_nclocks = MaxClocks
    /\ dt_nclocks >= 2
    /\ dt_freqs.vals[1] # dt_freqs.vals[2]

\* ---- C2
\* C2 (as claimed): when Detach is over it has returned without error and
\* every item of the ClockSet the preceding Attach built has enabled = false.
\* Stated for an Attach that resolved every clock to a live handle.
C2_DetachDisablesAttached ==
    (/\ op = "remove"
     /\ pc \in {"idle", "oops"}
     /\ \A k \in DOMAIN data.clocks : IsClk(data.clocks[k])) =>
      /\ pc = "idle"
      /\ ret = "0"
      /\ \A k \in DOMAIN data.clk_enabled : ~data.clk_enabled[k]

\* ---- C3
\* The case of C3: probe resolved each of its n >= 1 clocks to a live
\* handle, read the frequencies, and has returned; the property is absent or
\* its length is not n.
C3_Case ==
    /\ ProbeReturned
    /\ dt_nclocks >= 1
    /\ \A p \in ReqsOf("of_clk_get") : reqs[p].res = "clk"
    /\ ReqsOf("of_property_read_u32_array") # {}
    /\ (~dt_freqs.present \/ Len(dt_freqs.vals) # dt_nclocks)

\* C3 (as claimed): Attach with a frequency array that is missing or whose
\* length differs from n, shorter or longer, fails with
\* FrequencyConfigMissing before any set_rate or prepare_enable, and no
\* item is enabled.
C3_LengthMismatchFails ==
    C3_Case =>
      /\ ret = "-EINVAL"
      /\ LastMsg = Msg("Devicetree clock-frequencies missing", -1)
      /\ EnableReqs = {}
      /\ \A k \in DOMAIN data.clk_enabled : ~data.clk_enabled[k]

\* ---- C4
\* C4 (as claimed): once the resolution of clock k has yielded no valid
\* handle (NULL or an error pointer), it is the last request of the Attach:
\* no higher index is resolved, the frequencies are not read, no set_rate or
\* prepare_enable is made, no item is enabled, and Attach returns
\* ClockResolutionFailed(k).
C4_ResolutionFailureAborts ==
    \A p \in ReqsOf("of_clk_get") :
      (op = "probe" /\ reqs[p].res # "clk") =>
        /\ p = Len(reqs)
        /\ \A k \in DOMAIN data.clk_enabled : ~data.clk_enabled[k]
        /\ pc = "idle" =>
             /\ ret = "-EINVAL"
             /\ LastMsg = Msg("Could not get clock", reqs[p].idx)

\* ---- C5
\* The case of C5: probe counted the declared clocks, found none, and has
\* returned.
C5_Case ==
    /\ ProbeReturned
    /\ \E p \in ReqsOf("of_clk_get_parent_count") : reqs[p].arg = 0

\* C5: Attach with zero declared clocks fails with NoClocksDeclared before
\* anything is resolved: no resolve, frequency read, set_rate or
\* prepare_enable is made, no ClockSet exists afterwards, and no clock handle
\* or provider reference is held.
C5_NoClocksDeclared ==
    C5_Case =>
      /\ ret = "-ENOMEM"
      /\ errlog = <<Msg("No clocks found in devicetree", -1)>>
      /\ Len(reqs) = 1
      /\ ~data.arrays
      /\ data.clocks = <<>>
      /\ data.clk_enabled = <<>>
      /\ ~bound
      /\ \A k \in DOMAIN prov_count : prov_count[k] = 0

\* Witness of C5: a probe of a node without clocks has returned.
C5_Witness == C5_Case /\ dt_nclocks = 0 /\ ret = "-ENOMEM"

\* ---- C6
\* Two dummy_clk_enable calls in a row on the same item, the first of which
\* succeeded.
C6_Pair(c) ==
    /\ calls[c].fn = "dummy_clk_enable"
    /\ calls[c + 1].fn = "dummy_clk_enable"
    /\ calls[c].idx = calls[c + 1].idx
    /\ calls[c].ret = "0"

\* C6: EnableClock is idempotent.  After a successful call, a second call on
\* the same item returns success, makes no request and leaves the state of
\* the first call (enabled = true); when the first call found the item
\* disabled, the two calls together made exactly one clk_set_rate and exactly
\* one clk_prepare_enable for that clock.
C6_EnableIdempotent ==
    \A c \in 1 .. (Len(calls) - 1) :
      C6_Pair(c) =>
        LET a == calls[c]
            b == calls[c + 1]
            both == a.reqs \o b.reqs
            n_of(f) == Cardinality({p \in DOMAIN both :
                                      /\ both[p].fn = f
                                      /\ both[p].idx = a.idx})
        IN  /\ b.ret = "0"
            /\ b.reqs = <<>>
            /\ b.after = a.after
            /\ b.after[a.idx]
            /\ ~a.before[a.idx] =>
                 /\ n_of("clk_set_rate") = 1
                 /\ n_of("clk_prepare_enable") = 1
                 /\ Len(both) = 2

\* Witness of C6: EnableClock called twice in a row on an item that was
\* disabled before the first call.
C6_Witness ==
    \E c \in 1 .. (Len(calls) - 1) :
      /\ C6_Pair(c)
      /\ ~calls[c].before[calls[c].idx]
      /\ pdata.clk_enabled[calls[c].idx]

\* ---- C7
\* C7: DisableClock on an enabled item makes exactly one
\* clk_disable_unprepare on that item's handle and clears enabled, nothing
\* else; on a disabled item it makes no request and changes nothing; hence
\* the second of two DisableClock calls in a row on one item does nothing.
C7_DisableOnce ==
    /\ \A c \in DOMAIN calls :
         calls[c].fn = "dummy_clk_disable" =>
           LET a == calls[c]
           IN  IF a.before[a.idx]
               THEN /\ a.reqs = <<Req("clk_disable_unprepare", a.idx,
                                      pdata.clocks[a.idx], 0, "ok")>>
                    /\ a.after = [a.before EXCEPT ![a.idx] = FALSE]
               ELSE /\ a.reqs = <<>>
                    /\ a.after = a.before
    /\ \A c \in 1 .. (Len(calls) - 1) :
         (/\ calls[c].fn = "dummy_clk_disable"
          /\ calls[c + 1].fn = "dummy_clk_disable"
          /\ calls[c].idx = calls[c + 1].idx) =>
           /\ calls[c + 1].reqs = <<>>
           /\ calls[c + 1].after = calls[c].after
           /\ ~calls[c + 1].after[calls[c].idx]

\* Witness of C7: DisableClock called twice in a row on an item that was
\* enabled before the first call.
C7_Witness ==
    \E c \in 1 .. (Len(calls) - 1) :
      /\ calls[c].fn = "dummy_clk_disable"
      /\ calls[c + 1].fn = "dummy_clk_disable"
      /\ calls[c].idx = calls[c + 1].idx
      /\ calls[c].before[calls[c].idx]

\* ---- C8
\* C8: EnableClock on a disabled item.  clk_set_rate comes first; if it
\* fails the call returns an error, makes no clk_prepare_enable and leaves
\* enabled = false; if it succeeds clk_prepare_enable follows, and if that
\* fails the call returns an error and leaves enabled = false; enabled
\* becomes true, and the call returns success, only when both succeeded.
C8_EnableFailureLeavesDisabled ==
    \A c \in DOMAIN calls :
      (calls[c].fn = "dummy_clk_enable" /\ ~calls[c].before[calls[c].idx]) =>
        LET a == calls[c]
            k == a.idx
        IN  /\ Len(a.reqs) >= 1
            /\ a.reqs[1].fn = "clk_set_rate"
            /\ a.reqs[1].res = "fail" =>
                 /\ a.ret # "0"
                 /\ Len(a.reqs) = 1
                 /\ ~a.after[k]
            /\ a.reqs[1].res = "ok" =>
                 /\ Len(a.reqs) = 2
                 /\ a.reqs[2].fn = "clk_prepare_enable"
                 /\ a.reqs[2].res = "fail" => (a.ret # "0" /\ ~a.after[k])
            /\ a.after[k] <=>
                 /\ Len(a.reqs) = 2
                 /\ a.reqs[1].res = "ok"
                 /\ a.reqs[2].res = "ok"
            /\ a.after[k] <=> a.ret = "0"
            /\ \A j \in DOMAIN a.after : j # k => a.after[j] = a.before[j]

\* Witness of C8: an EnableClock call on a disabled item whose clk_set_rate
\* succeeded and whose clk_prepare_enable failed.
C8_Witness ==
    \E c \in DOMAIN calls :
      /\ calls[c].fn = "dummy_clk_enable"
      /\ ~calls[c].before[calls[c].idx]
      /\ Len(calls[c].reqs) = 2
      /\ calls[c].reqs[2].res = "fail"
      /\ ~pdata.clk_enabled[calls[c].idx]

\* ---- C9
\* C9: if EnableClock fails at index k during Attach, Attach returns an
\* error at once and rolls nothing back: the failed request is the last one
\* Attach made, items 0 .. k-1 are enabled, item k and the items after it
\* are not, no clk_set_rate or clk_prepare_enable was made for an index
\* above k, and Attach made no clk_disable_unprepare.
C9_EnableFailureNoRollback ==
    \A p \in EnableReqs :
      (ProbeReturned /\ reqs[p].res = "fail") =>
        LET k == reqs[p].idx
        IN  /\ ret = "-EINVAL"
            /\ LastMsg = Msg("Could not enable clock", -1)
            /\ p = Len(reqs)
            /\ \A j \in Idx(data.n_clocks) : data.clk_enabled[j] <=> j < k
            /\ \A q \in EnableReqs : reqs[q].idx <= k
            /\ ReqsOf("clk_disable_unprepare") = {}

\* Witness of C9: Attach has returned after EnableClock failed at an index
\* k >= 1, with item 0 enabled.
C9_Witness ==
    \E p \in EnableReqs :
      /\ ProbeReturned
      /\ reqs[p].res = "fail"
      /\ reqs[p].idx >= 1
      /\ data.clk_enabled[0]
      /\ ret = "-EINVAL"

\* ---- C10
\* C10: clocks are processed in ascending index order.  In Attach the
\* resolutions come in ascending order and all before the first
\* clk_set_rate; the clk_set_rate / clk_prepare_enable requests come in
\* ascending order, those of clock k before those of clock k+1 and
\* clk_set_rate before clk_prepare_enable for one clock; every clock
\* configured was resolved earlier.  In Detach the clk_disable_unprepare
\* requests come in ascending order, never in reverse.
C10_AscendingOrder ==
    /\ op = "probe" =>
         /\ \A p, q \in DOMAIN reqs :
              p < q =>
                /\ (reqs[p].fn = "of_clk_get" /\ reqs[q].fn = "of_clk_get")
                     => reqs[q].idx = reqs[p].idx + (q - p)
                /\ (reqs[p].fn \in EnableFns /\ reqs[q].fn \in EnableFns)
                     => /\ reqs[p].idx <= reqs[q].idx
                        /\ reqs[p].idx = reqs[q].idx =>
                             /\ reqs[p].fn = "clk_set_rate"
                             /\ reqs[q].fn = "clk_prepare_enable"
                /\ reqs[p].fn \in EnableFns => reqs[q].fn # "of_clk_get"
         /\ \A q \in EnableReqs :
              \E p \in ReqsOf("of_clk_get") :
                p < q /\ reqs[p].idx = reqs[q].idx
    /\ op = "remove" =>
         \A p, q \in ReqsOf("clk_disable_unprepare") :
           p < q => reqs[p].idx < reqs[q].idx

\* Witness of C10: Detach has returned after disabling two clocks of a
\* populated record.
C10_Witness ==
    /\ RemoveReturned
    /\ pdata.alloc
    /\ Cardinality(ReqsOf("clk_disable_unprepare")) >= 2

\* ---- C11
\* C11 (as claimed): between operations the enabled flag of every item of the
\* device's ClockSet agrees with the provider.  Item k is enabled exactly
\* when the provider holds an outstanding prepare_enable of the driver on
\* clock k, and an item the last Attach enabled had, as its last requests, a
\* successful clk_set_rate to its target frequency followed by a successful
\* clk_prepare_enable.  Stated for a ClockSet without error-pointer handles.
C11_FlagAgreesWithProvider ==
    (/\ pc = "idle"
     /\ \A k \in DOMAIN data.clocks : data.clocks[k] # ERR_PTR) =>
      \A k \in DOMAIN data.clk_enabled :
        /\ data.clk_enabled[k] <=> prov_count[k] >= 1
        /\ (data.clk_enabled[k] /\ op = "probe") =>
             \E p, q \in DOMAIN reqs :
               /\ p < q
               /\ reqs[p] = Req("clk_set_rate", k, data.clocks[k],
                                data.clk_frequencies[k], "ok")
               /\ reqs[q] = Req("clk_prepare_enable", k, data.clocks[k],
                                0, "ok")
               /\ \A r \in DOMAIN reqs :
                    (r > q /\ reqs[r].fn # "of_clk_get") => reqs[r].idx # k

\* ---- C12
\* C12 (as claimed): every EnableClock call that enables a clock (the item
\* was disabled, clk_set_rate and clk_prepare_enable succeeded, the item is
\* enabled afterwards) makes a clk_get_rate request on that clock after the
\* successful clk_prepare_enable.
C12_EnableQueriesRate ==
    \A c \in DOMAIN calls :
      (/\ calls[c].fn = "dummy_clk_enable"
       /\ ~calls[c].before[calls[c].idx]
       /\ calls[c].after[calls[c].idx]) =>
        \E p, q \in DOMAIN calls[c].reqs :
          /\ p < q
          /\ calls[c].reqs[p].fn = "clk_prepare_enable"
          /\ calls[c].reqs[p].res = "ok"
          /\ calls[c].reqs[q].fn = "clk_get_rate"
          /\ calls[c].reqs[q].idx = calls[c].idx

\* ---- C13
\* The record the running operation works on: probe's own allocation, or the
\* record behind platform_data for remove and the direct helper calls.
C13_Record == IF op = "probe" THEN data ELSE pdata

\* Request r is a clk_set_rate that carries the frequency cell of its own
\* index, as the clock-frequencies property of the devicetree gives it.
C13_Positional(r) ==
    r.fn = "clk_set_rate" =>
      /\ r.idx + 1 \in DOMAIN dt_freqs.vals
      /\ r.arg = dt_freqs.vals[r.idx + 1]

\* The clock count, the handles and the frequencies of record d are the same
\* after the step as before it.
C13_Frozen(d, e) ==
    /\ e.n_clocks = d.n_clocks
    /\ e.clocks = d.clocks
    /\ e.clk_frequencies = d.clk_frequencies

\* C13: frequencies belong to clocks by position and stay as discovered.
\* Every clk_set_rate request, made by probe or by a direct dummy_clk_enable
\* call, is made on the handle the record holds for its index and carries the
\* cell of that index of the configured frequency array; and no step of the
\* enable loop, of a direct dummy_clk_enable or dummy_clk_disable call, or of
\* remove changes the clock count, a handle or a frequency of either record.
C13_PositionalAndFrozen ==
    /\ [](/\ \A p \in DOMAIN reqs :
               /\ C13_Positional(reqs[p])
               /\ reqs[p].fn = "clk_set_rate" =>
                    reqs[p].clk = C13_Record.clocks[reqs[p].idx]
          /\ \A c \in DOMAIN calls :
               \A p \in DOMAIN calls[c].reqs :
                 /\ C13_Positional(calls[c].reqs[p])
                 /\ calls[c].reqs[p].idx = calls[c].idx
                 /\ calls[c].reqs[p].clk = pdata.clocks[calls[c].idx])
    /\ [][(\/ ProbeEnable
           \/ CallEnable
           \/ CallDisable
           \/ RemoveBegin
           \/ RemoveDisable) =>
            /\ C13_Frozen(data, data')
            /\ C13_Frozen(pdata, pdata')]_vars

\* C13 witness: a record of two clocks with different frequencies; clock 1
\* was enabled by a direct call (its clk_set_rate went out), another direct
\* call followed, and remove has run to its end on the record.
C13_Witness ==
    /\ op = "remove"
    /\ pc = "idle"
    /\ pdata.alloc
    /\ pdata.n_clocks = 2
    /\ pdata.clk_frequencies[0] # pdata.clk_frequencies[1]
    /\ Len(calls) = 2
    /\ calls[1].fn = "dummy_clk_enable"
    /\ calls[1].idx = 1
    /\ \E p \in DOMAIN calls[1].reqs : calls[1].reqs[p].fn = "clk_set_rate"
    /\ calls[2].fn = "dummy_clk_disable"

\* ---- C14
\* C14 (as claimed): the enable requests stay balanced over the lifetime of
\* the device.  For every clock, over any sequence of probe and remove calls,
\* the number of successful clk_prepare_enable requests minus the number of
\* clk_disable_unprepare requests is 0 or 1.
C14_Balanced ==
    \A k \in DOMAIN prov_count : prov_count[k] \in {0, 1}

\* ---- C15
\* C15: a direct dummy_clk_enable or dummy_clk_disable call on clock i touches
\* only item i.  Every request it makes is on index i and on the handle the
\* record holds for i, and the enabled flag of every other item is the same
\* after the call as before it, whatever the call returned.
C15_OnlyItemTouched ==
    \A c \in DOMAIN calls :
      /\ \A p \in DOMAIN calls[c].reqs :
           /\ calls[c].reqs[p].idx = calls[c].idx
           /\ calls[c].reqs[p].clk = pdata.clocks[calls[c].idx]
      /\ DOMAIN calls[c].after = DOMAIN calls[c].before
      /\ \A j \in DOMAIN calls[c].before :
           j # calls[c].idx => calls[c].after[j] = calls[c].before[j]

\* C15 witness: a record of two clocks; a dummy_clk_enable call on clock 0
\* failed while clock 1 was enabled, then a dummy_clk_disable call on clock 1
\* made its request while clock 0 was disabled.
C15_Witness ==
    /\ pdata.alloc
    /\ pdata.n_clocks = 2
    /\ Len(calls) = 2
    /\ calls[1].fn = "dummy_clk_enable"
    /\ calls[1].idx = 0
    /\ calls[1].ret = "err"
    /\ calls[1].reqs # <<>>
    /\ calls[1].before[1]
    /\ calls[2].fn = "dummy_clk_disable"
    /\ calls[2].idx = 1
    /\ calls[2].reqs # <<>>
    /\ ~calls[2].after[1]

=============================================================================
